---- MODULE Spec2Model ----
(***************************************************************************)
(* Model of the league-table aggregation and prediction engine of          *)
(* vfootballprediction_tables:                                             *)
(*   - LeagueTableGenerator (src/api_client.py): add_match, generate_table *)
(*   - DataProcessor.extract_match_info (src/api_client.py)                *)
(*   - Predictor (src/predictor.py): get_team_stats, predict_match         *)
(* Python dicts are modelled as TLA+ functions whose DOMAIN is the set of  *)
(* keys that are present; a dict held by reference is modelled by the key  *)
(* under which the owner holds it.                                         *)
(***************************************************************************)
EXTENDS Integers, Sequences, FiniteSets, TLC

\* ------------------------------------------------------------------------
\* Bounds of the model
\* ------------------------------------------------------------------------
MaxMatches == 2
MaxLongRun == 6
MaxBatch == 3
MaxScoreLen == 5
MaxEvents == 2
MaxRepeat == 3
MaxPageEvents == 3
MaxFetches == 5
MaxClock == 34
MaxRows == 3

\* Team names offered to add_match ("" is the empty name of line 320).
TeamNames == {"A", "B", "C"}

VARIABLES
    team_stats,   \* LeagueTableGenerator.team_stats: entries in insertion order
    returned,     \* the list returned by the last generate_table: references
    snapshot,     \* copy of the entries of `returned` taken when it was returned
    tally,        \* number of decisive / drawn matches counted so far
    history,      \* the records add_match counted, in call order
    expected_teams, \* LeagueTableGenerator.expected_teams
    outcome,      \* how the last call ended: "new", "counted", "skipped",
                  \* "KeyError", "TypeError" (add_match) or "table"
    batch,        \* the caller's loop over one league's matches
    pages,        \* DataProcessor.process_league_pages: its loop over events
    fetch,        \* VirtualFootballAPI.fetch_all_league_pages: its locals
    scheduled_matches, \* the rows of the scheduled_matches table, by id
    sqlite_sequence,   \* the last id AUTOINCREMENT gave out in that table
    now,          \* the clock, in minutes
    listing,      \* the fixtures the last /matches/<league> answer listed
    event,        \* the raw event handed to DataProcessor.extract_match_info
    match_info,   \* what extract_match_info returned for it
    matches,      \* the rows of the matches table, by event_id
    request,      \* the arguments of the last predict_match call
    prediction,   \* what predict_match returned
    pc            \* "ready" before a call under study, "done" after it

vars == <<team_stats, returned, snapshot, tally, history, expected_teams,
          outcome, batch, pages, fetch, scheduled_matches, sqlite_sequence,
          now, listing, event, match_info, matches, request, prediction, pc>>

\* The state of one LeagueTableGenerator and of the table it handed out.
vars_table == <<team_stats, returned, snapshot, tally, history, expected_teams,
                outcome>>

vars_norm == <<event, match_info>>

vars_sched == <<scheduled_matches, sqlite_sequence, now, listing>>

vars_pred == <<matches, request, prediction>>

\* Python's {} and None.
EmptyDict == [k \in {} |-> 0]

None == [none |-> TRUE]

\* `if x:` for a dict or None
Truthy(x) == x # None /\ DOMAIN x # {}

\* No batch loop is running.
NoBatch == [matches |-> <<>>, cursor |-> 0, run |-> "none"]

\* The part of the state a specification does not exercise.
NoPages == [events |-> <<>>, cursor |-> 0, all_matches |-> <<>>, run |-> "none"]

NoFetch == [existing_matches |-> {}, all_matches |-> <<>>, total_processed |-> 0,
            page_num |-> 0, run |-> "none", why |-> ""]

IdleFetch == fetch = NoFetch

IdleScheduler ==
    /\ scheduled_matches = EmptyDict /\ sqlite_sequence = 0 /\ now = 0
    /\ listing = None

IdleBatch == batch = NoBatch /\ pages = NoPages /\ IdleFetch /\ IdleScheduler

IdleNormalizer == event = EmptyDict /\ match_info = EmptyDict

IdlePredictor == matches = EmptyDict /\ request = None /\ prediction = None

\* ------------------------------------------------------------------------
\* Small helpers
\* ------------------------------------------------------------------------
Max(a, b) == IF a >= b THEN a ELSE b

RECURSIVE SumSeq(_)
SumSeq(s) == IF s = <<>> THEN 0 ELSE Head(s) + SumSeq(Tail(s))

\* A Python int value / a str value / None, as stored under a score key.
IntVal(n) == <<"int", n>>

StrVal == <<"str">>

NoneVal == <<"none">>

IsInt(v) == v[1] = "int"

\* ------------------------------------------------------------------------
\* LeagueTableGenerator
\* ------------------------------------------------------------------------
\* position = NoPosition models a stats dict that has no 'position' key yet.
NoPosition == 0

\* The dict created at lines 330-343.
NewTeam(team) ==
    [team_name |-> team, matches_played |-> 0, wins |-> 0, draws |-> 0,
     losses |-> 0, goals_for |-> 0, goals_against |-> 0,
     goal_difference |-> 0, points |-> 0, home_matches |-> 0,
     away_matches |-> 0, last_5_results |-> <<>>, position |-> NoPosition]

\* `team in self.team_stats`
HasTeam(ts, team) == \E i \in 1..Len(ts) : ts[i].team_name = team

\* self.team_stats[team]: the entry is identified by its place in the dict.
Ref(ts, team) == CHOOSE i \in 1..Len(ts) : ts[i].team_name = team

\* lines 328-343: for team in [home_team, away_team]: create when missing
InitTeams(ts, home_team, away_team) ==
    LET t1 == IF HasTeam(ts, home_team) THEN ts ELSE Append(ts, NewTeam(home_team))
    IN  IF HasTeam(t1, away_team) THEN t1 ELSE Append(t1, NewTeam(away_team))

\* stats[field] += n
Incr(ts, i, field, n) == [ts EXCEPT ![i][field] = @ + n]

\* stats['last_5_results'].append(code)
Push(ts, i, code) == [ts EXCEPT ![i].last_5_results = Append(@, code)]

\* lines 360-378: the result branch; h and a are the two stats references.
ApplyResult_NoLoss(ts, h, a, home_score, away_score) ==
    IF home_score > away_score
    THEN Push(Push(Incr(Incr(ts, h, "wins", 1), h, "points", 3), h, "W"), a, "L")
    ELSE IF away_score > home_score
    THEN Push(Push(Incr(Incr(Incr(ts, a, "wins", 1), a, "points", 3),
                        h, "losses", 1), h, "L"), a, "W")
    ELSE Push(Push(Incr(Incr(Incr(Incr(ts, h, "draws", 1), h, "points", 1),
                             a, "draws", 1), a, "points", 1), h, "D"), a, "D")

ApplyResult(ts, h, a, home_score, away_score) ==
    IF home_score > away_score
    THEN Push(Push(Incr(Incr(Incr(ts, h, "wins", 1), h, "points", 3),
                        a, "losses", 1), h, "W"), a, "L")
    ELSE IF away_score > home_score
    THEN Push(Push(Incr(Incr(Incr(ts, a, "wins", 1), a, "points", 3),
                        h, "losses", 1), h, "L"), a, "W")
    ELSE Push(Push(Incr(Incr(Incr(Incr(ts, h, "draws", 1), h, "points", 1),
                             a, "draws", 1), a, "points", 1), h, "D"), a, "D")

\* lines 381-383: results[-5:] when longer than 5
KeepLast5_Never(results) == results

KeepLast5_DropNewest(results) ==
    IF Len(results) > 5 THEN SubSeq(results, 1, 5) ELSE results

KeepLast5(results) ==
    IF Len(results) > 5
    THEN SubSeq(results, Len(results) - 4, Len(results))
    ELSE results

Truncate(ts, i) == [ts EXCEPT ![i].last_5_results = KeepLast5(@)]

\* lines 345-383 for a record whose two scores are ints.
UpdateStats(ts, home_team, away_team, home_score, away_score) ==
    LET h  == Ref(ts, home_team)
        a  == Ref(ts, away_team)
        t1 == Incr(Incr(Incr(Incr(ts, h, "matches_played", 1), h, "home_matches", 1),
                        h, "goals_for", home_score), h, "goals_against", away_score)
        t2 == Incr(Incr(Incr(Incr(t1, a, "matches_played", 1), a, "away_matches", 1),
                        a, "goals_for", away_score), a, "goals_against", home_score)
        t3 == ApplyResult(t2, h, a, home_score, away_score)
    IN  Truncate(Truncate(t3, h), a)

\* lines 345-350 up to the `+=` that raises TypeError on a non-int score.
PartialUpdate(ts, home_team, home_score) ==
    LET h  == Ref(ts, home_team)
        t1 == Incr(Incr(ts, h, "matches_played", 1), h, "home_matches", 1)
    IN  IF IsInt(home_score) THEN Incr(t1, h, "goals_for", home_score[2]) ELSE t1

\* add_match as a function of the accumulator and the record: the new
\* team_stats, the exception that propagates, and whether the match counted.
AddMatchResult_TeamsFirst(ts, match) ==
    IF ~({"home_team", "away_team"} \subseteq DOMAIN match)
    THEN [team_stats |-> ts, raised |-> "KeyError", counted |-> FALSE]
    ELSE IF match.home_team = "" /\ match.away_team = ""
    THEN [team_stats |-> ts, raised |-> "none", counted |-> FALSE]
    ELSE IF match.home_team = ""
    THEN [team_stats |-> InitTeams(ts, match.away_team, match.away_team),
          raised |-> "none", counted |-> FALSE]
    ELSE IF match.away_team = ""
    THEN [team_stats |-> InitTeams(ts, match.home_team, match.home_team),
          raised |-> "none", counted |-> FALSE]
    ELSE IF ~({"home_score", "away_score"} \subseteq DOMAIN match)
    THEN [team_stats |-> ts, raised |-> "KeyError", counted |-> FALSE]
    ELSE LET t0 == InitTeams(ts, match.home_team, match.away_team)
         IN  IF IsInt(match.home_score) /\ IsInt(match.away_score)
             THEN [team_stats |-> UpdateStats(t0, match.home_team, match.away_team,
                                              match.home_score[2], match.away_score[2]),
                   raised |-> "none", counted |-> TRUE]
             ELSE [team_stats |-> PartialUpdate(t0, match.home_team, match.home_score),
                   raised |-> "TypeError", counted |-> FALSE]

AddMatchResult_Dedup(ts, match) ==
    IF \E k \in 1..Len(history) : history[k].event_id = match.event_id
    THEN [team_stats |-> ts, raised |-> "none", counted |-> FALSE]
    ELSE [team_stats |-> UpdateStats(InitTeams(ts, match.home_team, match.away_team),
                                     match.home_team, match.away_team,
                                     match.home_score[2], match.away_score[2]),
          raised |-> "none", counted |-> TRUE]

AddMatchResult(ts, match) ==
    IF ~({"home_team", "away_team"} \subseteq DOMAIN match)
    THEN [team_stats |-> ts, raised |-> "KeyError", counted |-> FALSE]
    ELSE IF match.home_team = "" \/ match.away_team = ""
    THEN [team_stats |-> ts, raised |-> "none", counted |-> FALSE]
    ELSE IF ~({"home_score", "away_score"} \subseteq DOMAIN match)
    THEN [team_stats |-> ts, raised |-> "KeyError", counted |-> FALSE]
    ELSE LET t0 == InitTeams(ts, match.home_team, match.away_team)
         IN  IF IsInt(match.home_score) /\ IsInt(match.away_score)
             THEN [team_stats |-> UpdateStats(t0, match.home_team, match.away_team,
                                              match.home_score[2], match.away_score[2]),
                   raised |-> "none", counted |-> TRUE]
             ELSE [team_stats |-> PartialUpdate(t0, match.home_team, match.home_score),
                   raised |-> "TypeError", counted |-> FALSE]

\* The sort key of line 395.
SortKey(x) == <<x.points, x.goal_difference, x.goals_for>>

\* Python tuple comparison k1 >= k2 (lexicographic).
KeyGE(k1, k2) ==
    \/ k1[1] > k2[1]
    \/ k1[1] = k2[1] /\ k1[2] > k2[2]
    \/ k1[1] = k2[1] /\ k1[2] = k2[2] /\ k1[3] >= k2[3]

KeyGT(k1, k2) == KeyGE(k1, k2) /\ k1 # k2

\* sorted(..., reverse=True): stable, descending. An entry goes after every
\* entry already placed whose key is >= its own.
RECURSIVE InsertDesc_BeforeEqual(_, _, _)
InsertDesc_BeforeEqual(ts, out, i) ==
    IF out = <<>> THEN <<i>>
    ELSE IF KeyGE(SortKey(ts[i]), SortKey(ts[Head(out)]))
         THEN <<i>> \o out
         ELSE <<Head(out)>> \o InsertDesc_BeforeEqual(ts, Tail(out), i)

RECURSIVE InsertDesc(_, _, _)
InsertDesc(ts, out, i) ==
    IF out = <<>> THEN <<i>>
    ELSE IF KeyGT(SortKey(ts[i]), SortKey(ts[Head(out)]))
         THEN <<i>> \o out
         ELSE <<Head(out)>> \o InsertDesc(ts, Tail(out), i)

RECURSIVE SortFrom(_, _, _)
SortFrom(ts, out, i) ==
    IF i > Len(ts) THEN out ELSE SortFrom(ts, InsertDesc(ts, out, i), i + 1)

SortedTeams_Ascending(ts) ==
    LET d == SortFrom(ts, <<>>, 1) IN [k \in 1..Len(d) |-> d[Len(d) + 1 - k]]

\* lines 393-397: the references of team_stats.values() in sorted order
SortedTeams(ts) == SortFrom(ts, <<>>, 1)

\* lines 389-390: goal_difference recomputed for every team
WithGoalDifference(ts) ==
    [i \in 1..Len(ts) |-> [ts[i] EXCEPT !.goal_difference =
                                 ts[i].goals_for - ts[i].goals_against]]

\* lines 400-401: position written into the (shared) stats dicts
WithPositions_SharedRank(ts, sorted) ==
    [i \in 1..Len(ts) |->
        [ts[i] EXCEPT !.position =
            CHOOSE k \in 1..Len(sorted) :
                /\ SortKey(ts[sorted[k]]) = SortKey(ts[i])
                /\ \A j \in 1..(k - 1) : SortKey(ts[sorted[j]]) # SortKey(ts[i])]]

WithPositions(ts, sorted) ==
    [i \in 1..Len(ts) |->
        [ts[i] EXCEPT !.position = CHOOSE k \in 1..Len(sorted) : sorted[k] = i]]

\* generate_table as a function of the accumulator, lines 389-409: the
\* team_stats it leaves behind and the order of the list it returns.
GenerateTableResult_StaleKey(ts) ==
    LET t1     == WithGoalDifference(ts)
        sorted == SortedTeams(ts)
    IN  [team_stats |-> WithPositions(t1, sorted), sorted |-> sorted]

GenerateTableResult(ts) ==
    LET t1     == WithGoalDifference(ts)
        sorted == SortedTeams(t1)
    IN  [team_stats |-> WithPositions(t1, sorted), sorted |-> sorted]

\* The returned list: the names of its entries, and the entries as they read
\* at the moment of the return.
TableNames(g) == [k \in 1..Len(g.sorted) |-> g.team_stats[g.sorted[k]].team_name]

TableEntries(g) == [k \in 1..Len(g.sorted) |-> g.team_stats[g.sorted[k]]]

\* What a holder of the returned list reads now: each element is the dict
\* object that team_stats holds under the same team name.
TableNow == [k \in 1..Len(returned) |-> team_stats[Ref(team_stats, returned[k])]]

\* ------------------------------------------------------------------------
\* Inputs
\* ------------------------------------------------------------------------
\* Goal counts offered as home_score / away_score.
Scores == {0, 1}

\* Records as DataProcessor.extract_match_info shapes them (int scores); the
\* team names may be empty, add_match re-checks them.
ValidMatches ==
    [home_team : TeamNames \cup {""}, away_team : TeamNames \cup {""},
     home_score : {IntVal(n) : n \in Scores},
     away_score : {IntVal(n) : n \in Scores}]

\* ------------------------------------------------------------------------
\* Actions of the accumulator
\* ------------------------------------------------------------------------
Decisive(match) == match.home_score[2] # match.away_score[2]

Count(r, match) ==
    IF ~r.counted THEN tally
    ELSE IF Decisive(match) THEN [tally EXCEPT !.decisive = @ + 1]
    ELSE [tally EXCEPT !.drawn = @ + 1]

\* A record add_match takes in: both names non-empty (line 320), both scores
\* present as ints.
Acceptable(match) ==
    /\ {"home_team", "away_team", "home_score", "away_score"} \subseteq DOMAIN match
    /\ match.home_team # "" /\ match.away_team # ""
    /\ IsInt(match.home_score) /\ IsInt(match.away_score)

\* The acceptable records add_match was called with so far, the new one last.
Record(match) == IF Acceptable(match) THEN Append(history, match) ELSE history

\* Rosters a caller may pass as expected_teams; None becomes [] (line 313).
Rosters == {<<>>, <<"A", "C">>}

\* LeagueTableGenerator.__init__(expected_teams), lines 310-313
Construct_Preseeded(roster) ==
    /\ team_stats = [i \in 1..Len(roster) |-> NewTeam(roster[i])]
    /\ returned = <<>>
    /\ snapshot = <<>>
    /\ tally = [decisive |-> 0, drawn |-> 0]
    /\ history = <<>>
    /\ expected_teams = roster
    /\ outcome = "new"

Construct(roster) ==
    /\ team_stats = <<>>
    /\ returned = <<>>
    /\ snapshot = <<>>
    /\ tally = [decisive |-> 0, drawn |-> 0]
    /\ history = <<>>
    /\ expected_teams = roster
    /\ outcome = "new"

\* LeagueTableGenerator() as the callers construct it (no argument)
InitTable == Construct(<<>>)

Outcome(r) ==
    IF r.raised # "none" THEN r.raised
    ELSE IF r.counted THEN "counted" ELSE "skipped"

Accepted == tally.decisive + tally.drawn

DoAddMatch(match) ==
    LET r == AddMatchResult(team_stats, match) IN
    /\ team_stats' = r.team_stats
    /\ outcome' = Outcome(r)
    /\ tally' = Count(r, match)
    /\ history' = Record(match)
    /\ UNCHANGED <<returned, snapshot, expected_teams>>

add_match ==
    /\ Accepted < MaxMatches
    /\ \E match \in ValidMatches : DoAddMatch(match)
    /\ UNCHANGED <<batch, pages, fetch, vars_sched, vars_norm, vars_pred, pc>>

DoGenerateTable ==
    LET g == GenerateTableResult(team_stats)
    IN  /\ team_stats' = g.team_stats
        /\ returned' = TableNames(g)
        /\ snapshot' = TableEntries(g)
        /\ outcome' = "table"
        /\ UNCHANGED <<tally, history, expected_teams>>

generate_table ==
    /\ DoGenerateTable
    /\ UNCHANGED <<batch, pages, fetch, vars_sched, vars_norm, vars_pred, pc>>

Init ==
    /\ \E roster \in Rosters : Construct(roster)
    /\ IdleBatch /\ IdleNormalizer /\ IdlePredictor /\ pc = "ready"

Next == add_match \/ generate_table

Spec == Init /\ [][Next]_vars

\* A long run of one fixture pair: the same accumulator fed only by add_match.
\* A and B meet again and again, at either ground; the results are 1:0, 0:1
\* and 1:1.
LongRunMatches ==
    { m \in [home_team : {"A", "B"}, away_team : {"A", "B"},
             home_score : {IntVal(n) : n \in Scores},
             away_score : {IntVal(n) : n \in Scores}] :
        /\ m.home_team # m.away_team
        /\ m.home_score[2] + m.away_score[2] > 0 }

add_match_long ==
    /\ Accepted < MaxLongRun
    /\ \E match \in LongRunMatches : DoAddMatch(match)
    /\ UNCHANGED <<batch, pages, fetch, vars_sched, vars_norm, vars_pred, pc>>

InitLong == InitTable /\ IdleBatch /\ IdleNormalizer /\ IdlePredictor /\ pc = "ready"

NextLong == add_match_long

SpecLong == InitLong /\ [][NextLong]_vars

\* Records that carry the event_id extract_match_info gives them (line 283):
\* one fixture, two event ids, so that the same record can be offered again.
RepeatMatches ==
    [event_id : {"e1", "e2"}, home_team : {"A"}, away_team : {"B"},
     home_score : {IntVal(n) : n \in Scores},
     away_score : {IntVal(n) : n \in Scores}]

add_match_repeat ==
    /\ Len(history) < MaxRepeat
    /\ \E match \in RepeatMatches : DoAddMatch(match)
    /\ UNCHANGED <<batch, pages, fetch, vars_sched, vars_norm, vars_pred, pc>>

NextRepeat == add_match_repeat

SpecRepeat == InitLong /\ [][NextRepeat]_vars

\* ------------------------------------------------------------------------
\* The caller's batch loop: fetch_completed_matches_via_api, lines 259-266
\*     table_generator = LeagueTableGenerator()
\*     for match in matches: table_generator.add_match(match)
\*     league_table = table_generator.generate_table()
\* inside the try of line 223, whose except (274-276) ends the whole call.
\* ------------------------------------------------------------------------
\* Records a caller can hand to add_match: well-formed ones and records that
\* lack a key or carry a score that is not an int.
BatchMatches ==
    { [home_team |-> "A", away_team |-> "B", home_score |-> IntVal(1), away_score |-> IntVal(0)],
      [home_team |-> "B", away_team |-> "A", home_score |-> IntVal(1), away_score |-> IntVal(1)],
      [home_team |-> "B", away_team |-> "C", home_score |-> IntVal(0), away_score |-> IntVal(1)],
      [home_team |-> "",  away_team |-> "C", home_score |-> IntVal(0), away_score |-> IntVal(0)],
      [home_team |-> "A", away_team |-> "B"],
      [away_team |-> "B", home_score |-> IntVal(1), away_score |-> IntVal(0)],
      [home_team |-> "A", away_team |-> "C", home_score |-> StrVal, away_score |-> IntVal(1)],
      [home_team |-> "C", away_team |-> "A", home_score |-> IntVal(1), away_score |-> NoneVal] }

RECURSIVE SeqsUpTo(_, _)
SeqsUpTo(S, n) ==
    IF n = 0 THEN {<<>>}
    ELSE LET shorter == SeqsUpTo(S, n - 1)
         IN  shorter \cup {Append(q, x) : q \in shorter, x \in S}

InitBatch ==
    /\ InitTable
    /\ \E ms \in SeqsUpTo(BatchMatches, MaxBatch) \ {<<>>} :
          batch = [matches |-> ms, cursor |-> 1, run |-> "running"]
    /\ pages = NoPages /\ IdleFetch /\ IdleScheduler
    /\ IdleNormalizer /\ IdlePredictor /\ pc = "ready"

\* One iteration of the for loop of line 262. An exception leaving add_match
\* leaves the loop too: the remaining records are never offered.
batch_add_match ==
    /\ batch.run = "running"
    /\ batch.cursor <= Len(batch.matches)
    /\ LET match == batch.matches[batch.cursor]
           r     == AddMatchResult(team_stats, match)
       IN  /\ team_stats' = r.team_stats
           /\ outcome' = Outcome(r)
           /\ tally' = Count(r, match)
           /\ history' = Record(match)
           /\ batch' = IF r.raised # "none"
                       THEN [batch EXCEPT !.run = "aborted"]
                       ELSE [batch EXCEPT !.cursor = @ + 1]
    /\ UNCHANGED <<returned, snapshot, expected_teams, pages, fetch, vars_sched,
                   vars_norm,
                   vars_pred, pc>>

\* line 265, reached when the loop ran to its end
batch_generate_table ==
    /\ batch.run = "running"
    /\ batch.cursor > Len(batch.matches)
    /\ DoGenerateTable
    /\ batch' = [batch EXCEPT !.run = "done"]
    /\ UNCHANGED <<pages, fetch, vars_sched, vars_norm, vars_pred, pc>>

NextBatch == batch_add_match \/ batch_generate_table

SpecBatch == InitBatch /\ [][NextBatch]_vars

\* ------------------------------------------------------------------------
\* Claims about the accumulator
\* ------------------------------------------------------------------------
SumOver(ts, field) == SumSeq([i \in 1..Len(ts) |-> ts[i][field]])

\* C1: after any sequence of add_match calls with well-formed matches, the
\* wins of all teams add up to the losses of all teams, and the points of all
\* teams add up to 3 per decisive match added plus 2 per drawn match added.
C1_WinsLossesPoints ==
    /\ SumOver(team_stats, "wins") = SumOver(team_stats, "losses")
    /\ SumOver(team_stats, "points") = 3 * tally.decisive + 2 * tally.drawn

C1_Witness ==
    /\ tally.decisive >= 1
    /\ tally.drawn >= 1
    /\ outcome = "counted"
    /\ SumOver(team_stats, "points") = 5

\* C2: the list generate_table returns is in descending order of
\* (points, goal_difference, goals_for): each entry's key is >= the next one's.
C2_TableSorted ==
    \A k \in 1..(Len(snapshot) - 1) :
        KeyGE(SortKey(snapshot[k]), SortKey(snapshot[k + 1]))

\* a table of three teams with three different keys, which the sort had to
\* reorder: the first team inserted is not the leader
C2_Witness ==
    /\ outcome = "table"
    /\ Len(snapshot) = 3
    /\ KeyGT(SortKey(snapshot[1]), SortKey(snapshot[2]))
    /\ KeyGT(SortKey(snapshot[2]), SortKey(snapshot[3]))
    /\ snapshot[3].team_name = team_stats[1].team_name

\* C3: however many matches a team has played, its last_5_results never holds
\* more than 5 entries.
C3_Last5Bounded ==
    \A i \in 1..Len(team_stats) : Len(team_stats[i].last_5_results) <= 5

C3_Witness ==
    \E i \in 1..Len(team_stats) :
        /\ team_stats[i].matches_played >= 6
        /\ Len(team_stats[i].last_5_results) = 5

\* C6: the table generate_table returned shares no mutable state with the
\* accumulator: whatever add_match does afterwards, every field of every entry
\* of that table still reads as it did when the table was returned.
C6_ReturnedTableIsolated == TableNow = snapshot

\* An entry without the two fields generate_table writes.
Unranked(x) == [x EXCEPT !.goal_difference = 0, !.position = NoPosition]

\* C12: generate_table changes nothing in the accumulator but each team's
\* goal_difference and position, and a second call right after a first one
\* returns the same teams in the same order with the same positions and
\* statistics, leaving the accumulator as the first call left it.
C12_GenerateTableIdempotent ==
    LET g == GenerateTableResult(team_stats)
    IN  /\ Len(g.team_stats) = Len(team_stats)
        /\ \A i \in 1..Len(team_stats) :
               Unranked(g.team_stats[i]) = Unranked(team_stats[i])
        /\ outcome = "table" =>
               /\ g.team_stats = team_stats
               /\ TableNames(g) = returned
               /\ TableEntries(g) = snapshot

\* a table of three teams that the sort had to reorder, with a tie in it
C12_Witness ==
    /\ outcome = "table"
    /\ Len(returned) = 3
    /\ returned[1] # team_stats[1].team_name
    /\ SortKey(snapshot[2]) = SortKey(snapshot[3])
    /\ snapshot[1].goal_difference = 2

\* What the records of `history` add up to for one team, every record counted
\* as often as it occurs.
Share(m, team, field) ==
    LET hs   == m.home_score[2]
        as   == m.away_score[2]
        home == IF m.home_team = team THEN 1 ELSE 0
        away == IF m.away_team = team THEN 1 ELSE 0
        won  == (IF hs > as THEN home ELSE 0) + (IF as > hs THEN away ELSE 0)
        drew == IF hs = as THEN home + away ELSE 0
    IN  CASE field = "matches_played" -> home + away
          [] field = "goals_for"      -> home * hs + away * as
          [] field = "goals_against"  -> home * as + away * hs
          [] field = "wins"           -> won
          [] field = "draws"          -> drew
          [] field = "losses"         -> home + away - won - drew
          [] field = "points"         -> 3 * won + drew

Total(team, field) ==
    SumSeq([k \in 1..Len(history) |-> Share(history[k], team, field)])

CountedFields ==
    {"matches_played", "goals_for", "goals_against", "wins", "draws", "losses",
     "points"}

\* C11: the accumulator does not de-duplicate: a record offered again (same
\* event_id, same teams, same score) is counted again, so every team's
\* matches_played, goals, wins, draws, losses and points are the totals over
\* all records offered, each taken as often as it was offered.
C11_NoDeduplication ==
    /\ \A i \in 1..Len(team_stats) : \A field \in CountedFields :
           team_stats[i][field] = Total(team_stats[i].team_name, field)
    /\ \A k \in 1..Len(history) :
           HasTeam(team_stats, history[k].home_team)
           /\ HasTeam(team_stats, history[k].away_team)

\* the same record (event e1, A 1:0 B) was offered twice in a row
C11_Witness ==
    /\ Len(history) = 2
    /\ history[1] = history[2]
    /\ history[1].home_score = IntVal(1) /\ history[1].away_score = IntVal(0)
    /\ team_stats[1].team_name = "A"
    /\ team_stats[1].matches_played = 2
    /\ team_stats[1].points = 6
    /\ team_stats[2].losses = 2

\* A counter of a team before a call: 0 when the team has no entry yet.
Before(team, field) ==
    IF HasTeam(team_stats, team) THEN team_stats[Ref(team_stats, team)][field] ELSE 0

\* By how much the call changed a counter of a team.
Delta(team, field) ==
    team_stats'[Ref(team_stats', team)][field] - Before(team, field)

Deltas(team) == <<Delta(team, "wins"), Delta(team, "draws"), Delta(team, "losses")>>

\* The step took in the record m: what it did to the result counters.
PairedIncrement(m) ==
    LET hs == m.home_score[2]
        as == m.away_score[2]
    IN  /\ hs > as => /\ Deltas(m.home_team) = <<1, 0, 0>>
                      /\ Deltas(m.away_team) = <<0, 0, 1>>
        /\ as > hs => /\ Deltas(m.home_team) = <<0, 0, 1>>
                      /\ Deltas(m.away_team) = <<1, 0, 0>>
        /\ hs = as => /\ Deltas(m.home_team) = <<0, 1, 0>>
                      /\ Deltas(m.away_team) = <<0, 1, 0>>

\* C15: every match add_match accepts (both names non-empty, equal or not)
\* increments exactly one of wins, draws, losses of each participating team,
\* by exactly 1, and consistently: home win = home +1 win and away +1 loss,
\* away win = away +1 win and home +1 loss, draw = both +1 draw.
C15_PairedIncrement ==
    [][history' # history => PairedIncrement(history'[Len(history')])]_vars

\* The team names in the order add_match met them: home before away, record
\* after record.
NamesSeen ==
    [j \in 1..(2 * Len(history)) |->
        IF j % 2 = 1 THEN history[(j + 1) \div 2].home_team
        ELSE history[j \div 2].away_team]

FirstSeen(team) ==
    CHOOSE j \in 1..Len(NamesSeen) :
        NamesSeen[j] = team /\ \A i \in 1..(j - 1) : NamesSeen[i] # team

\* C16: teams equal on (points, goal_difference, goals_for) stand in the
\* returned table in the order in which add_match first met their names.
C16_TiesInInsertionOrder ==
    \A k \in 1..Len(snapshot) : \A l \in (k + 1)..Len(snapshot) :
        SortKey(snapshot[k]) = SortKey(snapshot[l]) =>
            FirstSeen(snapshot[k].team_name) < FirstSeen(snapshot[l].team_name)

\* A then C then B were met; C leads, and A and B tie behind it, A first
C16_Witness ==
    /\ outcome = "table"
    /\ Len(snapshot) = 3
    /\ SortKey(snapshot[2]) = SortKey(snapshot[3])
    /\ snapshot[1].team_name = team_stats[2].team_name
    /\ snapshot[2].team_name = team_stats[1].team_name
    /\ snapshot[3].team_name = team_stats[3].team_name
    /\ FirstSeen(snapshot[2].team_name) = 1
    /\ FirstSeen(snapshot[3].team_name) = 3

\* C17: in a table returned by generate_table the entry at index k (counted
\* from 0) has position k + 1: the positions are 1..n without repeats or
\* gaps, and teams with equal sort keys get consecutive positions.
C17_PositionsConsecutive ==
    \A k \in 1..Len(snapshot) : snapshot[k].position = k

\* three teams, the last two with one and the same key, at positions 2 and 3
C17_Witness ==
    /\ outcome = "table"
    /\ Len(snapshot) = 3
    /\ SortKey(snapshot[2]) = SortKey(snapshot[3])
    /\ snapshot[2].position = 2
    /\ snapshot[3].position = 3

TeamsHeld == {team_stats[i].team_name : i \in 1..Len(team_stats)}

TeamsPlayed ==
    {history[k].home_team : k \in 1..Len(history)}
        \cup {history[k].away_team : k \in 1..Len(history)}

C19_EmptyNameChangesNothing ==
    [][outcome' = "skipped" =>
          /\ team_stats' = team_stats
          /\ history' = history
          /\ tally' = tally
          /\ returned' = returned
          /\ TableNow' = TableNow]_vars

\* a record with an empty name was offered to an accumulator holding A and B
C19_Witness ==
    /\ outcome = "skipped"
    /\ Len(history) = 1
    /\ TeamsHeld = {"A", "B"}
    /\ team_stats[1].matches_played = 1

\* The result of a match for the side that scored `own` goals.
Code(own, other) == IF own = other THEN "D" ELSE IF own > other THEN "W" ELSE "L"

\* The codes the match m gives the team: one as home side, one as away side
\* (both, home first, when the team is named on both sides).
CodesFor(m, team) ==
    (IF m.home_team = team THEN <<Code(m.home_score[2], m.away_score[2])>> ELSE <<>>)
    \o (IF m.away_team = team THEN <<Code(m.away_score[2], m.home_score[2])>> ELSE <<>>)

\* The team's result codes over the first k records, oldest first.
RECURSIVE OwnCodes(_, _)
OwnCodes(team, k) ==
    IF k = 0 THEN <<>> ELSE OwnCodes(team, k - 1) \o CodesFor(history[k], team)

\* C20: a team's last_5_results is the sequence of its own W/D/L codes for its
\* most recent min(5, matches played) matches, oldest first: a call appends
\* at the end and what is evicted is the oldest.
C20_Last5AreMostRecent ==
    \A i \in 1..Len(team_stats) :
        LET codes == OwnCodes(team_stats[i].team_name, Len(history))
            n     == team_stats[i].matches_played
            keep  == IF n < 5 THEN n ELSE 5
        IN  /\ Len(codes) = n
            /\ team_stats[i].last_5_results = SubSeq(codes, n - keep + 1, n)

\* six matches, the first one (a win) has been evicted
C20_Witness ==
    \E i \in 1..Len(team_stats) :
        /\ team_stats[i].matches_played = 6
        /\ OwnCodes(team_stats[i].team_name, 1) = <<"W">>
        /\ team_stats[i].last_5_results = <<"L", "L", "D", "W", "D">>

\* C7: no exception leaves add_match, whatever the record: a malformed record
\* is skipped inside add_match, the accumulator is left as it was, and the
\* rest of the batch is still processed.
C7_NoExceptionEscapes ==
    /\ outcome \notin {"KeyError", "TypeError"}
    /\ batch.run # "aborted"

\* ------------------------------------------------------------------------
\* DataProcessor.extract_match_info (the definition of line 258, which
\* replaces the one of line 180 in the class body)
\* ------------------------------------------------------------------------
\* A str is a sequence of one-character strings.
Digits == {"0", "1", "2"}

ScoreChars == Digits \cup {":", "a", "-"}

DigitValue(c) == IF c = "0" THEN 0 ELSE IF c = "1" THEN 1 ELSE 2

\* s.split(':'): the parts between the colons, count(':') + 1 of them
RECURSIVE SplitFrom(_, _, _)
SplitFrom(s, parts, part) ==
    IF s = <<>> THEN Append(parts, part)
    ELSE IF Head(s) = ":" THEN SplitFrom(Tail(s), Append(parts, part), <<>>)
    ELSE SplitFrom(Tail(s), parts, Append(part, Head(s)))

Split(s) == SplitFrom(s, <<>>, <<>>)

AllDigits(s) == s # <<>> /\ \A i \in 1..Len(s) : s[i] \in Digits

\* int(s) returns for an optional sign followed by decimal digits and raises
\* ValueError for the other strings over ScoreChars.
IsIntLiteral(s) ==
    IF s # <<>> /\ Head(s) = "-" THEN AllDigits(Tail(s)) ELSE AllDigits(s)

RECURSIVE DigitsValue(_, _)
DigitsValue(s, acc) ==
    IF s = <<>> THEN acc ELSE DigitsValue(Tail(s), 10 * acc + DigitValue(Head(s)))

ParseInt(s) ==
    IF Head(s) = "-" THEN 0 - DigitsValue(Tail(s), 0) ELSE DigitsValue(s, 0)

\* lines 267-269 and 274-276: `int(parts[k]) if len(parts) >= 2 else 0`;
\* ok is FALSE when int() raises.
ScorePart(parts, k) ==
    IF Len(parts) >= 2
    THEN IF IsIntLiteral(parts[k])
         THEN [ok |-> TRUE, value |-> ParseInt(parts[k])]
         ELSE [ok |-> FALSE, value |-> 0]
    ELSE [ok |-> TRUE, value |-> 0]

\* event.get(key) is falsy: the key is absent or the name is empty
Falsy_AbsentOnly(e, key) == key \notin DOMAIN e

Falsy(e, key) == key \notin DOMAIN e \/ e[key] = ""

\* DataProcessor._get_match_result, lines 226-233
GetMatchResult(home_score, away_score) ==
    IF home_score > away_score THEN "1"
    ELSE IF away_score > home_score THEN "2"
    ELSE "X"

\* line 297: (home_score + away_score) > 2.5
OverUnder_AtLeastTwo(home_score, away_score) ==
    IF home_score + away_score >= 2 THEN "Over" ELSE "Under"

OverUnder(home_score, away_score) ==
    IF 2 * (home_score + away_score) > 5 THEN "Over" ELSE "Under"

\* line 298
BothTeamsScored(home_score, away_score) ==
    IF home_score > 0 /\ away_score > 0 THEN "Yes" ELSE "No"

\* lines 272-273: event.get('gameScore', ['0:0'])[0], '0:0' for an empty list
HalfTimeScore(e) ==
    IF "gameScore" \in DOMAIN e /\ Len(e.gameScore) > 0
    THEN e.gameScore[1]
    ELSE <<"0", ":", "0">>

\* lines 260-305; every exception ends in `return {}`
ExtractMatchInfo(e) ==
    IF Falsy(e, "homeTeamName") \/ Falsy(e, "awayTeamName") \/ "setScore" \notin DOMAIN e
    THEN EmptyDict
    ELSE LET set_score == Split(e.setScore)
             home      == ScorePart(set_score, 1)
             away      == ScorePart(set_score, 2)
             ht_parts  == Split(HalfTimeScore(e))
             ht_home   == ScorePart(ht_parts, 1)
             ht_away   == ScorePart(ht_parts, 2)
         IN  IF ~(home.ok /\ away.ok /\ ht_home.ok /\ ht_away.ok)
             THEN EmptyDict
             ELSE [home_team |-> e.homeTeamName,
                   away_team |-> e.awayTeamName,
                   home_score |-> home.value,
                   away_score |-> away.value,
                   total_goals |-> home.value + away.value,
                   ht_home_score |-> ht_home.value,
                   ht_away_score |-> ht_away.value,
                   ht_total_goals |-> ht_home.value + ht_away.value,
                   result |-> GetMatchResult(home.value, away.value),
                   over_under_2_5 |-> OverUnder(home.value, away.value),
                   both_teams_scored |-> BothTeamsScored(home.value, away.value)]

\* Raw events: every score string up to MaxScoreLen characters with both
\* names present, and a few score strings with each way a name or the score
\* or the half-time score can be missing or broken.
ScoreStrings == SeqsUpTo(ScoreChars, MaxScoreLen)

FewScoreStrings == {<<"2", ":", "1">>, <<"a">>, <<"1", ":", "2", ":", "0">>}

HalfTimeLists == {<<>>, <<<<"1", ":", "0">>>>, <<<<"a", ":", "1">>>>}

RawEvents ==
    [homeTeamName : {"A"}, awayTeamName : {"B"}, setScore : ScoreStrings]
    \cup [homeTeamName : {"A", ""}, awayTeamName : {"B", ""}, setScore : FewScoreStrings]
    \cup [awayTeamName : {"B"}, setScore : FewScoreStrings]
    \cup [homeTeamName : {"A"}, setScore : FewScoreStrings]
    \cup [homeTeamName : {"A"}, awayTeamName : {"B"}]
    \cup [homeTeamName : {"A"}, awayTeamName : {"B"}, setScore : FewScoreStrings,
           gameScore : HalfTimeLists]

InitNormalizer ==
    /\ InitTable /\ IdleBatch /\ IdlePredictor
    /\ event \in RawEvents
    /\ match_info = EmptyDict
    /\ pc = "ready"

extract_match_info ==
    /\ pc = "ready"
    /\ match_info' = ExtractMatchInfo(event)
    /\ pc' = "done"
    /\ UNCHANGED <<vars_table, batch, pages, fetch, vars_sched,
                   event, vars_pred>>

NextNormalizer == extract_match_info

SpecNormalizer == InitNormalizer /\ [][NextNormalizer]_vars

\* ------------------------------------------------------------------------
\* DataProcessor.process_league_pages, lines 236-255. The events of all
\* pages and tournaments are taken in loop order as one sequence.
\* ------------------------------------------------------------------------
\* Events a page can carry: two complete ones, one with an empty home name,
\* one without the away name, and an entry that is not a dict (None).
PageEvents ==
    { [homeTeamName |-> "A", awayTeamName |-> "B", setScore |-> <<"2", ":", "1">>],
      [homeTeamName |-> "B", awayTeamName |-> "A", setScore |-> <<"1", ":", "1">>],
      [homeTeamName |-> "",  awayTeamName |-> "B", setScore |-> <<"1", ":", "0">>],
      [homeTeamName |-> "A", setScore |-> <<"1", ":", "0">>],
      None }

\* extract_match_info raises out of its own except clause (line 304) when
\* the event has no get(): AttributeError.
ExtractRaises(e) == e = None

InitPages ==
    /\ InitTable /\ IdlePredictor
    /\ batch = NoBatch /\ IdleFetch /\ IdleScheduler
    /\ \E es \in SeqsUpTo(PageEvents, MaxPageEvents) \ {<<>>} :
          pages = [events |-> es, cursor |-> 1, all_matches |-> <<>>,
                   run |-> "running"]
    /\ IdleNormalizer
    /\ pc = "ready"

\* One iteration of the loop of line 247. An exception leaves the loops for
\* the except of line 252, and all_matches is returned as far as it got.
process_event ==
    /\ pages.run = "running"
    /\ pages.cursor <= Len(pages.events)
    /\ LET e == pages.events[pages.cursor]
       IN  IF ExtractRaises(e)
           THEN /\ pages' = [pages EXCEPT !.run = "failed"]
                /\ event' = e
                /\ UNCHANGED match_info
           ELSE LET r == ExtractMatchInfo(e)
                IN  /\ event' = e
                    /\ match_info' = r
                    /\ pages' = [pages EXCEPT
                                   !.cursor = @ + 1,
                                   !.all_matches = IF Truthy(r) THEN Append(@, r) ELSE @]
    /\ UNCHANGED <<vars_table, batch, fetch, vars_sched, vars_pred, pc>>

\* line 255 after the last event
return_all_matches ==
    /\ pages.run = "running"
    /\ pages.cursor > Len(pages.events)
    /\ pages' = [pages EXCEPT !.run = "returned"]
    /\ UNCHANGED <<vars_table, batch, fetch, vars_sched, vars_norm, vars_pred, pc>>

NextPages == process_event \/ return_all_matches

SpecPages == InitPages /\ [][NextPages]_vars

\* The event is a dict whose home or away team name is missing or empty.
NameMissing(e) ==
    /\ e # None
    /\ \/ "homeTeamName" \notin DOMAIN e
       \/ "awayTeamName" \notin DOMAIN e
       \/ e.homeTeamName = ""
       \/ e.awayTeamName = ""

\* The events the loop has dealt with.
Handled == 1..(pages.cursor - 1)

\* C13: for a raw event dict whose home or away team name is empty or
\* missing, extract_match_info returns the empty result and raises nothing;
\* process_league_pages leaves that event out of its result and goes on with
\* the events after it.
C13_NamelessEventOmitted ==
    /\ (pages.cursor > 1 /\ NameMissing(pages.events[pages.cursor - 1]))
          => match_info = EmptyDict
    /\ pages.run = "failed" => ~NameMissing(pages.events[pages.cursor])
    /\ \A j \in 1..Len(pages.all_matches) :
          pages.all_matches[j].home_team # "" /\ pages.all_matches[j].away_team # ""
    /\ Len(pages.all_matches) =
          Cardinality({k \in Handled : ~NameMissing(pages.events[k])})

\* nameless events first and second, a complete event after them is kept
C13_Witness ==
    /\ pages.run = "returned"
    /\ Len(pages.events) = 3
    /\ NameMissing(pages.events[1])
    /\ NameMissing(pages.events[2])
    /\ pages.events[1] # pages.events[2]
    /\ Len(pages.all_matches) = 1
    /\ pages.all_matches[1].home_team = "B"

\* The score field is present and splits on ':' into exactly two parts, each
\* of them a base-10 integer.
TwoIntegerParts(e) ==
    /\ "setScore" \in DOMAIN e
    /\ Len(Split(e.setScore)) = 2
    /\ IsIntLiteral(Split(e.setScore)[1])
    /\ IsIntLiteral(Split(e.setScore)[2])

\* C5: extract_match_info discards every raw event whose setScore is absent
\* or does not split on ':' into exactly two base-10 integers: it returns the
\* empty result, never a record.
C5_MalformedScoreDiscarded ==
    (pc = "done" /\ ~TwoIntegerParts(event)) => match_info = EmptyDict

\* The score string is "H:A" with H and A written in decimal digits.
WellFormedScore(e) ==
    /\ "setScore" \in DOMAIN e
    /\ Len(Split(e.setScore)) = 2
    /\ AllDigits(Split(e.setScore)[1])
    /\ AllDigits(Split(e.setScore)[2])

\* C14: for a well-formed score string "H:A" the record extract_match_info
\* produces has home_score = H, away_score = A, total_goals = H + A, result
\* '1' iff H > A, '2' iff A > H and 'X' otherwise, both_teams_scored 'Yes'
\* iff H > 0 and A > 0, and over_under_2_5 'Over' iff H + A >= 3; and with
\* both names given and no half-time score a record is produced.
C14_WellFormedScoreFields ==
    (pc = "done" /\ WellFormedScore(event)) =>
        LET H == DigitsValue(Split(event.setScore)[1], 0)
            A == DigitsValue(Split(event.setScore)[2], 0)
        IN  /\ (~NameMissing(event) /\ "gameScore" \notin DOMAIN event)
                  => match_info # EmptyDict
            /\ match_info # EmptyDict =>
                  /\ match_info.home_score = H
                  /\ match_info.away_score = A
                  /\ match_info.total_goals = H + A
                  /\ (match_info.result = "1") <=> (H > A)
                  /\ (match_info.result = "2") <=> (A > H)
                  /\ (match_info.result = "X") <=> (H = A)
                  /\ (match_info.both_teams_scored = "Yes") <=> (H > 0 /\ A > 0)
                  /\ (match_info.both_teams_scored = "No") <=> ~(H > 0 /\ A > 0)
                  /\ (match_info.over_under_2_5 = "Over") <=> (H + A >= 3)
                  /\ (match_info.over_under_2_5 = "Under") <=> (H + A < 3)

\* "1:1": two goals, a draw, both teams scored, Under
C14_Witness ==
    /\ pc = "done"
    /\ event.setScore = <<"1", ":", "1">>
    /\ match_info # EmptyDict
    /\ match_info.total_goals = 2
    /\ match_info.result = "X"
    /\ match_info.both_teams_scored = "Yes"
    /\ match_info.over_under_2_5 = "Under"

\* ------------------------------------------------------------------------
\* The matches table and Predictor (src/predictor.py)
\* ------------------------------------------------------------------------
\* get_team_stats(..., limit=5), get_h2h_stats(..., limit=5)
RecentLimit == 5

EventIds == 1..MaxEvents

Leagues == {"england virtual", "spain virtual"}

\* str.lower() on the values of the two flag columns
Lower(s) ==
    IF s = "Yes" THEN "yes" ELSE IF s = "No" THEN "no"
    ELSE IF s = "Over" THEN "over" ELSE IF s = "Under" THEN "under" ELSE s

\* The row DatabaseManager.save_matches writes (api_client.py 480-492) for a
\* record of extract_match_info: the league column is the league_name argument.
Row(info, event_id, start_time, league_name) ==
    [event_id |-> event_id, home_team |-> info.home_team, away_team |-> info.away_team,
     home_score |-> info.home_score, away_score |-> info.away_score,
     start_time |-> start_time, league |-> league_name, result |-> info.result,
     over_under_2_5 |-> info.over_under_2_5,
     both_teams_scored |-> info.both_teams_scored]

\* INSERT OR REPLACE on the UNIQUE event_id
Put(table, row) ==
    [id \in DOMAIN table \cup {row.event_id} |->
        IF id = row.event_id THEN row ELSE table[id]]

\* WHERE (home_team = ? OR away_team = ?) AND league = ?   (lines 27-34)
TeamRows(table, team_name, league) ==
    {id \in DOMAIN table :
        /\ table[id].home_team = team_name \/ table[id].away_team = team_name
        /\ table[id].league = league}

\* WHERE the two teams met, in either order, AND league = ?   (lines 95-102)
H2HRows(table, home_team, away_team, league) ==
    {id \in DOMAIN table :
        /\ \/ table[id].home_team = home_team /\ table[id].away_team = away_team
           \/ table[id].home_team = away_team /\ table[id].away_team = home_team
        /\ table[id].league = league}

\* ORDER BY start_time DESC LIMIT ?: every selection the order allows (rows
\* of equal start_time come in an order SQL leaves open).
Recent(table, ids, limit) ==
    {sel \in SUBSET ids :
        /\ Cardinality(sel) = IF Cardinality(ids) < limit THEN Cardinality(ids) ELSE limit
        /\ \A i \in sel, j \in ids \ sel : table[i].start_time >= table[j].start_time}

\* the sum of f[id] over the ids
RECURSIVE SumOf(_, _)
SumOf(f, ids) ==
    IF ids = {} THEN 0
    ELSE LET id == CHOOSE x \in ids : TRUE
         IN  f[id] + SumOf(f, ids \ {id})

\* lines 47-61: the result of one row from the side team_name played
IsHome(row, team_name) == team_name = row.home_team

FormResult_HomeView(row, team_name) ==
    IF row.result = "1" THEN "W" ELSE IF row.result = "X" THEN "D" ELSE "L"

FormResult(row, team_name) ==
    IF row.result = "1" /\ IsHome(row, team_name) THEN "W"
    ELSE IF row.result = "2" /\ ~IsHome(row, team_name) THEN "W"
    ELSE IF row.result = "X" THEN "D"
    ELSE "L"

\* lines 36-40: `if not matches: return None`
HasNoMatches_Below2(sel) == Cardinality(sel) < 2

HasNoMatches(sel) == sel = {}

\* get_team_stats over the fetched rows, lines 36-81
TeamStats(table, sel, team_name) ==
    IF HasNoMatches(sel) THEN None
    ELSE LET GoalsFor == [id \in sel |->
                 IF IsHome(table[id], team_name) THEN table[id].home_score
                 ELSE table[id].away_score]
             GoalsAgainst == [id \in sel |->
                 IF IsHome(table[id], team_name) THEN table[id].away_score
                 ELSE table[id].home_score]
             CountOf(code) == Cardinality({id \in sel : FormResult(table[id], team_name) = code})
         IN  [matches |-> Cardinality(sel),
              wins |-> CountOf("W"),
              draws |-> CountOf("D"),
              losses |-> CountOf("L"),
              goals_for |-> SumOf(GoalsFor, sel),
              goals_against |-> SumOf(GoalsAgainst, sel),
              btts_yes |-> Cardinality({id \in sel : Lower(table[id].both_teams_scored) = "yes"}),
              over_2_5 |-> Cardinality({id \in sel : Lower(table[id].over_under_2_5) = "over"})]

\* get_h2h_stats, lines 104-121, and its result when the query raises (125)
H2HStats(table, sel) ==
    [home_wins |-> Cardinality({id \in sel : table[id].result = "1"}),
     draws |-> Cardinality({id \in sel : table[id].result = "X"}),
     away_wins |-> Cardinality({id \in sel : table[id].result = "2"}),
     total |-> Cardinality(sel)]

NoH2H == [home_wins |-> 0, draws |-> 0, away_wins |-> 0, total |-> 0]

\* lines 187-198. The three raw values are fractions; they are held as
\* numerators over the common denominator 20 * home_matches * away_matches:
\*   home_win_rate * 0.6 + 0.15 = (12 * wins + 3 * home_matches) / (20 * home_matches)
\*   away_win_rate * 0.6        = 12 * wins / (20 * away_matches)
\*   (home_draw_rate + away_draw_rate) / 2
RawProbs_NoHomeAdvantage(home_stats, away_stats) ==
    LET home_matches == Max(home_stats.matches, 1)
        away_matches == Max(away_stats.matches, 1)
    IN  [home |-> 12 * home_stats.wins * away_matches,
         away |-> 12 * away_stats.wins * home_matches,
         draw |-> 10 * (home_stats.draws * away_matches + away_stats.draws * home_matches)]

RawProbs(home_stats, away_stats) ==
    LET home_matches == Max(home_stats.matches, 1)
        away_matches == Max(away_stats.matches, 1)
    IN  [home |-> (12 * home_stats.wins + 3 * home_matches) * away_matches,
         away |-> 12 * away_stats.wins * home_matches,
         draw |-> 10 * (home_stats.draws * away_matches + away_stats.draws * home_matches)]

\* lines 201-208: each value over `total`; an even split when total is 0
Normalize(raw) ==
    LET total == raw.home + raw.away + raw.draw
    IN  IF total > 0
        THEN [home |-> raw.home, away |-> raw.away, draw |-> raw.draw, total |-> total]
        ELSE [home |-> 1, away |-> 1, draw |-> 1, total |-> 3]

\* lines 211-219
PredictedResult_TieToHome(p) ==
    IF p.home >= p.away /\ p.home >= p.draw THEN "1"
    ELSE IF p.away >= p.home /\ p.away >= p.draw THEN "2"
    ELSE "X"

PredictedResult(p) ==
    IF p.home > p.away /\ p.home > p.draw THEN "1"
    ELSE IF p.away > p.home /\ p.away > p.draw THEN "2"
    ELSE "X"

PredictedScore(predicted_result) ==
    IF predicted_result = "1" THEN "2:1"
    ELSE IF predicted_result = "2" THEN "1:2"
    ELSE "1:1"

\* round(p * 100, 1) for p = x / total, in tenths of a percent (569 is 56.9).
\* A value exactly half way between two tenths goes to either of them: which
\* one the binary floating-point value of p * 100 falls to is not fixed by
\* the fractions.
Percent_Truncated(x, total) == {(1000 * x) \div total}

Percent(x, total) ==
    LET q == (1000 * x) \div total
        r == (1000 * x) % total
    IN  IF 2 * r < total THEN {q}
        ELSE IF 2 * r > total THEN {q + 1}
        ELSE {q, q + 1}

\* lines 222-224 and 235-236: the combined rate is yes / total_matches, and
\* the call is made when it is > 0.5
RateCall_AtLeastHalf(yes, total_matches, positive, negative) ==
    IF total_matches > 0 /\ 2 * yes >= total_matches THEN positive ELSE negative

RateCall(yes, total_matches, positive, negative) ==
    IF total_matches > 0 /\ 2 * yes > total_matches THEN positive ELSE negative

\* lines 186-248: the predictions predict_match can return for two stats
\* dicts that passed the checks of lines 173-178. match_start_time and
\* match_time_display (get_match_start_time, which catches every exception
\* itself) are display fields read from scheduled_matches and the clock.
Predictions(home_team, away_team, league, home_stats, away_stats, h2h_stats) ==
    LET p == Normalize(RawProbs(home_stats, away_stats))
        total_matches == Max(home_stats.matches, 1) + Max(away_stats.matches, 1)
    IN  { [home_team |-> home_team, away_team |-> away_team, league |-> league,
           predicted_result |-> PredictedResult(p),
           predicted_score |-> PredictedScore(PredictedResult(p)),
           home_win_prob |-> h, draw_prob |-> d, away_win_prob |-> a,
           btts |-> RateCall(home_stats.btts_yes + away_stats.btts_yes,
                             total_matches, "Yes", "No"),
           over_2_5 |-> RateCall(home_stats.over_2_5 + away_stats.over_2_5,
                                 total_matches, "Over", "Under"),
           home_stats |-> home_stats, away_stats |-> away_stats,
           h2h_stats |-> h2h_stats] :
          h \in Percent(p.home, p.total), d \in Percent(p.draw, p.total),
          a \in Percent(p.away, p.total) }

\* lines 165-178 then 186-248: None when either stats is None
PredictMatch(home_team, away_team, league, home_stats, away_stats, h2h_stats) ==
    IF ~Truthy(home_stats) \/ ~Truthy(away_stats) THEN {None}
    ELSE Predictions(home_team, away_team, league, home_stats, away_stats, h2h_stats)

\* --- the store and predict_match on it ---
\* Which query of a predict_match call raises sqlite3.Error: none of them,
\* one of the three, or all of them.
Faults == {"none", "home", "away", "h2h", "all"}

StoredScores == {<<h, ":", a>> : h \in {"0", "1"}, a \in {"0", "1"}}

InitStore ==
    /\ InitTable /\ IdleBatch /\ IdleNormalizer
    /\ matches = EmptyDict
    /\ request = None
    /\ prediction = None
    /\ pc = "ready"

\* One record of a batch passing process_league_pages and save_matches, while
\* the table holds fewer than MaxEvents rows.
save_matches ==
    \E event_id \in EventIds, home \in TeamNames, away \in TeamNames,
       score \in StoredScores, league_name \in Leagues :
        LET info == ExtractMatchInfo([homeTeamName |-> home, awayTeamName |-> away,
                                      setScore |-> score])
        IN  /\ pc = "ready"
            /\ Cardinality(DOMAIN matches) < MaxEvents
            /\ home # away
            /\ matches' = Put(matches, Row(info, event_id, event_id, league_name))
            /\ UNCHANGED <<vars_table, batch, pages, fetch, vars_sched,
                           vars_norm, request, prediction, pc>>

\* Predictor.predict_match("A", "B", "england virtual") on the current store.
predict_match ==
    /\ pc = "ready"
    /\ \E fault \in Faults :
      LET home_team == "A"
          away_team == "B"
          league    == "england virtual"
      IN  \E hsel \in Recent(matches, TeamRows(matches, home_team, league), RecentLimit),
             asel \in Recent(matches, TeamRows(matches, away_team, league), RecentLimit),
             xsel \in Recent(matches, H2HRows(matches, home_team, away_team, league), RecentLimit) :
            LET home_stats == IF fault \in {"home", "all"} THEN None
                              ELSE TeamStats(matches, hsel, home_team)
                away_stats == IF fault \in {"away", "all"} THEN None
                              ELSE TeamStats(matches, asel, away_team)
                h2h_stats  == IF fault \in {"h2h", "all"} THEN NoH2H
                              ELSE H2HStats(matches, xsel)
            IN  /\ request' = [home_team |-> home_team, away_team |-> away_team,
                               league |-> league, fault |-> fault]
                /\ prediction' \in PredictMatch(home_team, away_team, league,
                                                home_stats, away_stats, h2h_stats)
                /\ pc' = "done"
                /\ UNCHANGED <<vars_table, batch, pages, fetch, vars_sched,
                               vars_norm, matches>>

NextStore == save_matches \/ predict_match

SpecStore == InitStore /\ [][NextStore]_vars

\* --- predict_match as a function of the two teams' recent form ---
\* Stats dicts get_team_stats can return: 1..RecentLimit matches split into
\* wins, draws and losses, and the two flag counts.
FormStats(m, w, d, btts_yes, over_2_5) ==
    [matches |-> m, wins |-> w, draws |-> d, losses |-> m - w - d,
     goals_for |-> w, goals_against |-> m - w - d,
     btts_yes |-> btts_yes, over_2_5 |-> over_2_5]

ResultForms ==
    {FormStats(m, w, d, 0, 0) : m \in 1..RecentLimit, w \in 0..RecentLimit,
                                d \in 0..RecentLimit} \cap
    [matches : 1..RecentLimit, wins : 0..RecentLimit, draws : 0..RecentLimit,
     losses : 0..RecentLimit, goals_for : 0..RecentLimit, goals_against : 0..RecentLimit,
     btts_yes : {0}, over_2_5 : {0}]

FlagForms ==
    {f \in {FormStats(m, 0, 0, b, o) : m \in 1..RecentLimit, b \in 0..RecentLimit,
                                       o \in 0..RecentLimit} :
        f.btts_yes <= f.matches /\ f.over_2_5 <= f.matches}

InitForm ==
    /\ InitTable /\ IdleBatch /\ IdleNormalizer
    /\ matches = EmptyDict
    /\ \E home_stats, away_stats \in ResultForms \cup FlagForms :
          /\ {home_stats, away_stats} \subseteq ResultForms
             \/ {home_stats, away_stats} \subseteq FlagForms
          /\ request = [home_team |-> "A", away_team |-> "B", league |-> "england virtual",
                        home_stats |-> home_stats, away_stats |-> away_stats]
    /\ prediction = None
    /\ pc = "ready"

predict_from_form ==
    /\ pc = "ready"
    /\ prediction' \in PredictMatch(request.home_team, request.away_team, request.league,
                                    request.home_stats, request.away_stats, NoH2H)
    /\ pc' = "done"
    /\ UNCHANGED <<vars_table, batch, pages, fetch, vars_sched,
                   vars_norm, matches, request>>

NextForm == predict_from_form

SpecForm == InitForm /\ [][NextForm]_vars

\* ------------------------------------------------------------------------
\* Claims about Predictor
\* ------------------------------------------------------------------------
QueryFailed == request.fault \in {"home", "away", "all"}

StoredFor(team_name) == TeamRows(matches, team_name, request.league)

\* C4: predict_match returns None whenever the home or the away team has no
\* stored match in the league, and that is the only gate: with readable team
\* queries and at least one stored match for each team, even without a single
\* win, it returns a prediction.
C4_InsufficientDataGate ==
    pc = "done" =>
        /\ (StoredFor(request.home_team) = {} \/ StoredFor(request.away_team) = {})
               => prediction = None
        /\ (~QueryFailed /\ StoredFor(request.home_team) # {}
                         /\ StoredFor(request.away_team) # {})
               => prediction # None

C4_Witness ==
    /\ pc = "done"
    /\ ~QueryFailed
    /\ prediction # None
    /\ prediction.home_stats.matches = 1
    /\ prediction.home_stats.wins = 0
    /\ prediction.away_stats.wins = 0

\* What predict_match returns when the store is readable and holds no match
\* of either team.
NoDataOutcomes ==
    PredictMatch("A", "B", "england virtual",
                 TeamStats(EmptyDict, {}, "A"), TeamStats(EmptyDict, {}, "B"), NoH2H)

\* C8: a caller can tell "insufficient historical data" from a genuine error:
\* what predict_match returns when a store query fails is never the value it
\* returns when a team simply has no stored matches.
C8_ErrorDistinctFromNoData ==
    (pc = "done" /\ QueryFailed) => prediction \notin NoDataOutcomes

\* The scenario of the specification: home 2W-1D-0L over 3, away 0W-1D-1L over 2.
Scenario ==
    /\ request.home_stats.matches = 3 /\ request.home_stats.wins = 2
    /\ request.home_stats.draws = 1
    /\ request.away_stats.matches = 2 /\ request.away_stats.wins = 0
    /\ request.away_stats.draws = 1

\* the sum of the three rounded percentages, in tenths of a percent
PercentSum == prediction.home_win_prob + prediction.draw_prob + prediction.away_win_prob

C10_StrictHalfThreshold ==
    pc = "done" =>
        LET home    == request.home_stats
            away    == request.away_stats
            played  == home.matches + away.matches
        IN  /\ prediction.btts =
                   (IF 2 * (home.btts_yes + away.btts_yes) > played THEN "Yes" ELSE "No")
            /\ prediction.over_2_5 =
                   (IF 2 * (home.over_2_5 + away.over_2_5) > played THEN "Over" ELSE "Under")

C10_Witness ==
    /\ pc = "done"
    /\ 2 * (request.home_stats.btts_yes + request.away_stats.btts_yes)
           = request.home_stats.matches + request.away_stats.matches
    /\ prediction.btts = "No"
    /\ 2 * (request.home_stats.over_2_5 + request.away_stats.over_2_5)
           = request.home_stats.matches + request.away_stats.matches
    /\ prediction.over_2_5 = "Under"

\* The three normalized probabilities of the requested fixture, as whole
\* numbers over one common denominator (20 * home matches * away matches *
\* the raw total), so that comparing them compares the probabilities.
HomeShare ==
    (12 * request.home_stats.wins + 3 * request.home_stats.matches)
        * request.away_stats.matches

AwayShare == 12 * request.away_stats.wins * request.home_stats.matches

DrawShare ==
    10 * (request.home_stats.draws * request.away_stats.matches
          + request.away_stats.draws * request.home_stats.matches)

\* C22: predicted_result is '1' exactly when the home probability is strictly
\* above both others, '2' exactly when the away probability is strictly above
\* both others, and 'X' in every other case, every tie included; the
\* scoreline is the fixed 2:1, 1:2 or 1:1 of that result.
C22_StrictHighestElseDraw ==
    pc = "done" =>
        /\ prediction.predicted_result = "1"
               <=> (HomeShare > AwayShare /\ HomeShare > DrawShare)
        /\ prediction.predicted_result = "2"
               <=> (AwayShare > HomeShare /\ AwayShare > DrawShare)
        /\ prediction.predicted_result \in {"1", "2", "X"}
        /\ prediction.predicted_score =
               (CASE prediction.predicted_result = "1" -> "2:1"
                  [] prediction.predicted_result = "2" -> "1:2"
                  [] OTHER -> "1:1")

\* home and away level above the draw: the call is 'X'
C22_Witness ==
    /\ pc = "done"
    /\ HomeShare = AwayShare
    /\ HomeShare > DrawShare
    /\ prediction.home_win_prob = 500
    /\ prediction.away_win_prob = 500
    /\ prediction.predicted_result = "X"
    /\ prediction.predicted_score = "1:1"

\* C27: the raw home value is never below 0.15, so the raw total is positive,
\* the even split of line 208 is never taken, and the returned home
\* percentage is above 0; it is 100.0 when neither team has a win or a draw.
C27_FallbackUnreachable ==
    pc = "done" =>
        LET raw == RawProbs(request.home_stats, request.away_stats)
            blank == /\ request.home_stats.wins = 0 /\ request.home_stats.draws = 0
                     /\ request.away_stats.wins = 0 /\ request.away_stats.draws = 0
        IN  /\ raw.home >= 3 * request.home_stats.matches * request.away_stats.matches
            /\ raw.home + raw.away + raw.draw > 0
            /\ prediction.home_win_prob > 0
            /\ blank => /\ prediction.home_win_prob = 1000
                        /\ prediction.draw_prob = 0
                        /\ prediction.away_win_prob = 0

C27_Witness ==
    /\ pc = "done"
    /\ request.home_stats.wins = 0 /\ request.home_stats.draws = 0
    /\ request.away_stats.wins = 0 /\ request.away_stats.draws = 0
    /\ request.home_stats.matches = 5
    /\ prediction.home_win_prob = 1000
    /\ prediction.predicted_result = "1"

\* C26: in every accumulator state each team has matches_played = wins +
\* draws + losses = home_matches + away_matches and points = 3 * wins + draws;
\* in every returned table each entry has goal_difference = goals_for -
\* goals_against, the goals_for of all entries add up to their goals_against,
\* and the goal differences add up to 0.
C26_CountersConsistent ==
    /\ \A i \in 1..Len(team_stats) :
           /\ team_stats[i].matches_played
                  = team_stats[i].wins + team_stats[i].draws + team_stats[i].losses
           /\ team_stats[i].matches_played
                  = team_stats[i].home_matches + team_stats[i].away_matches
           /\ team_stats[i].points = 3 * team_stats[i].wins + team_stats[i].draws
    /\ \A k \in 1..Len(snapshot) :
           snapshot[k].goal_difference = snapshot[k].goals_for - snapshot[k].goals_against
    /\ SumOver(snapshot, "goals_for") = SumOver(snapshot, "goals_against")
    /\ SumOver(snapshot, "goal_difference") = 0

\* The stored rows of the requested league a team played in, split by what
\* the score says from that team's side.
WonBy(team_name) ==
    {id \in StoredFor(team_name) :
        \/ matches[id].home_team = team_name
              /\ matches[id].home_score > matches[id].away_score
        \/ matches[id].away_team = team_name
              /\ matches[id].away_score > matches[id].home_score}

DrawnBy(team_name) ==
    {id \in StoredFor(team_name) : matches[id].home_score = matches[id].away_score}

OwnGoals(team_name) ==
    [id \in StoredFor(team_name) |->
        IF matches[id].home_team = team_name THEN matches[id].home_score
        ELSE matches[id].away_score]

OtherGoals(team_name) ==
    [id \in StoredFor(team_name) |->
        IF matches[id].home_team = team_name THEN matches[id].away_score
        ELSE matches[id].home_score]

SideRelative(stats, team_name) ==
    /\ stats.matches = Cardinality(StoredFor(team_name))
    /\ stats.wins = Cardinality(WonBy(team_name))
    /\ stats.draws = Cardinality(DrawnBy(team_name))
    /\ stats.losses = Cardinality(StoredFor(team_name) \ (WonBy(team_name) \cup DrawnBy(team_name)))
    /\ stats.wins + stats.draws + stats.losses = stats.matches
    /\ stats.goals_for = SumOf(OwnGoals(team_name), StoredFor(team_name))
    /\ stats.goals_against = SumOf(OtherGoals(team_name), StoredFor(team_name))

RowsFor(id) ==
    {row \in {Row(ExtractMatchInfo([homeTeamName |-> home, awayTeamName |-> away,
                                    setScore |-> score]), id, id, request.league) :
                 home \in TeamNames, away \in TeamNames, score \in StoredScores} :
        row.home_team # row.away_team}

LeagueStores ==
    UNION {{t \in [ids -> UNION {RowsFor(id) : id \in ids}] :
               \A id \in ids : t[id].event_id = id} : ids \in SUBSET EventIds}

\* What predict_match reads from a store for the requested fixture, and the
\* probability triples it can return on it.
FormOf(table, team_name) ==
    {TeamStats(table, sel, team_name) :
        sel \in Recent(table, TeamRows(table, team_name, request.league), RecentLimit)}

H2HOf(table) ==
    {H2HStats(table, sel) :
        sel \in Recent(table, H2HRows(table, request.home_team, request.away_team,
                                      request.league), RecentLimit)}

ProbsOf(table) ==
    {<<q.home_win_prob, q.draw_prob, q.away_win_prob>> :
        q \in UNION {PredictMatch(request.home_team, request.away_team, request.league,
                                  hs, as, x) \ {None} :
                        hs \in FormOf(table, request.home_team),
                        as \in FormOf(table, request.away_team),
                        x \in H2HOf(table)}}

StoreFacts ==
    {[home |-> FormOf(t, request.home_team), away |-> FormOf(t, request.away_team),
      h2h |-> H2HOf(t), probs |-> ProbsOf(t)] : t \in LeagueStores}

\* C25: the head-to-head record influences the probabilities predict_match
\* returns: there are two stores with the same recent form of both teams and
\* different head-to-head records on which the home / draw / away
\* probabilities differ.
C25_H2HInfluencesProbabilities ==
    (pc = "done" /\ prediction # None) =>
        LET facts == StoreFacts
        IN  \E f1, f2 \in facts :
               /\ f1.home = f2.home /\ f1.away = f2.away
               /\ f1.h2h # f2.h2h
               /\ f1.probs # f2.probs

\* Stores with the same form of both teams and different head-to-head
\* records exist; on all of them the probabilities are the same.
C25_SameFormSameProbabilities ==
    (pc = "done" /\ prediction # None /\ Cardinality(DOMAIN matches) = MaxEvents) =>
        LET facts == StoreFacts
        IN  /\ \E f1, f2 \in facts :
                   /\ f1.home = f2.home /\ f1.away = f2.away
                   /\ f1.h2h # f2.h2h /\ f1.probs # {}
            /\ \A f1, f2 \in facts :
                   (f1.home = f2.home /\ f1.away = f2.away) => f1.probs = f2.probs

\* ------------------------------------------------------------------------
\* League names (src/config.py) and the two paths that write the matches
\* table. A name is a string; Len, SubSeq, Tail and \o act on its characters.
\* ------------------------------------------------------------------------
UpperLetters == "ABCDEFGHIJKLMNOPQRSTUVWXYZ"

LowerLetters == "abcdefghijklmnopqrstuvwxyz"

\* str.lower(), letter by letter
ToLower ==
    [c \in {SubSeq(UpperLetters, i, i) : i \in 1..Len(UpperLetters)} |->
        LET i == CHOOSE k \in 1..Len(UpperLetters) : SubSeq(UpperLetters, k, k) = c
        IN  SubSeq(LowerLetters, i, i)]

LowerChar(c) == IF c \in DOMAIN ToLower THEN ToLower[c] ELSE c

RECURSIVE LowerCase(_)
LowerCase(name) ==
    IF name = "" THEN "" ELSE LowerChar(SubSeq(name, 1, 1)) \o LowerCase(Tail(name))

\* str.strip()
RECURSIVE Strip(_)
Strip(name) ==
    IF name = "" THEN ""
    ELSE IF SubSeq(name, 1, 1) = " " THEN Strip(Tail(name))
    ELSE IF SubSeq(name, Len(name), Len(name)) = " "
         THEN Strip(SubSeq(name, 1, Len(name) - 1))
    ELSE name

\* `part in name`
Contains(part, name) ==
    \E i \in 1..(Len(name) - Len(part) + 1) : SubSeq(name, i, i + Len(part) - 1) = part

\* name.replace(old, '')
RECURSIVE Remove(_, _)
Remove(name, old) ==
    IF Len(name) < Len(old) THEN name
    ELSE IF SubSeq(name, 1, Len(old)) = old
         THEN Remove(SubSeq(name, Len(old) + 1, Len(name)), old)
    ELSE SubSeq(name, 1, 1) \o Remove(Tail(name), old)

\* LEAGUE_NAME_MAPPING (config.py 6-33), in the order of the dict
LEAGUE_NAME_MAPPING ==
    << <<"england", "england virtual">>, <<"spain", "spain virtual">>,
       <<"italy", "italy virtual">>, <<"germany", "germany virtual">>,
       <<"france", "france virtual">>,
       <<"england virtual", "england virtual">>, <<"spain virtual", "spain virtual">>,
       <<"italy virtual", "italy virtual">>, <<"germany virtual", "germany virtual">>,
       <<"france virtual", "france virtual">>,
       <<"England", "england virtual">>, <<"Spain", "spain virtual">>,
       <<"Italy", "italy virtual">>, <<"Germany", "germany virtual">>,
       <<"France", "france virtual">>,
       <<"England Virtual", "england virtual">>, <<"Spain Virtual", "spain virtual">>,
       <<"Italy Virtual", "italy virtual">>, <<"Germany Virtual", "germany virtual">>,
       <<"France Virtual", "france virtual">> >>

\* `key in LEAGUE_NAME_MAPPING` and LEAGUE_NAME_MAPPING[key]
Mapped(key) == \E k \in 1..Len(LEAGUE_NAME_MAPPING) : LEAGUE_NAME_MAPPING[k][1] = key

MappingOf(key) ==
    LEAGUE_NAME_MAPPING[CHOOSE k \in 1..Len(LEAGUE_NAME_MAPPING) :
                            LEAGUE_NAME_MAPPING[k][1] = key][2]

\* standardize_league_name, config.py 53-85
StandardizeLeagueName(league_name) ==
    IF league_name = "" THEN "unknown virtual"
    ELSE LET name  == Strip(league_name)
             lower == LowerCase(name)
             hits  == {k \in 1..Len(LEAGUE_NAME_MAPPING) :
                          Contains(LowerCase(LEAGUE_NAME_MAPPING[k][1]), lower)}
         IN  IF Mapped(lower) THEN MappingOf(lower)
             ELSE IF Mapped(name) THEN MappingOf(name)
             ELSE IF hits # {}
                  THEN LEAGUE_NAME_MAPPING[CHOOSE k \in hits : \A j \in hits : k <= j][2]
             ELSE Strip(Remove(lower, "virtual")) \o " virtual"

\* Keys of VirtualFootballAPI.leagues (api_client.py 28-34) that
\* fetch_all_leagues returns data under; two of the five.
LeagueKeys == {"england", "spain"}

InitLeagues == InitStore

\* One record of one league on its way through
\* EnhancedDataFetcher.fetch_completed_matches_via_api: the league column is
\* standardize_league_name(league_name) (lines 255-256).
fetch_completed_matches_via_api ==
    \E event_id \in EventIds, home \in {"A", "B"}, away \in {"A", "B"},
       score \in StoredScores, league_name \in LeagueKeys :
        LET info == ExtractMatchInfo([homeTeamName |-> home, awayTeamName |-> away,
                                      setScore |-> score])
            standardized_league_name == StandardizeLeagueName(league_name)
        IN  /\ pc = "ready"
            /\ Cardinality(DOMAIN matches) < MaxEvents
            /\ home # away
            /\ matches' = Put(matches, Row(info, event_id, event_id,
                                           standardized_league_name))
            /\ UNCHANGED <<vars_table, batch, pages, fetch, vars_sched,
                           vars_norm, request, prediction, pc>>

\* The same record on its way through api_client.main: the league column is
\* the key itself (line 591).
main ==
    \E event_id \in EventIds, home \in {"A", "B"}, away \in {"A", "B"},
       score \in StoredScores, league_name \in LeagueKeys :
        LET info == ExtractMatchInfo([homeTeamName |-> home, awayTeamName |-> away,
                                      setScore |-> score])
        IN  /\ pc = "ready"
            /\ Cardinality(DOMAIN matches) < MaxEvents
            /\ home # away
            /\ matches' = Put(matches, Row(info, event_id, event_id, league_name))
            /\ UNCHANGED <<vars_table, batch, pages, fetch, vars_sched,
                           vars_norm, request, prediction, pc>>

NextLeagues == fetch_completed_matches_via_api \/ main \/ predict_match

SpecLeagues == InitLeagues /\ [][NextLeagues]_vars

\* Names a source may hand to standardize_league_name, and what it makes of
\* them.
RawLeagueNames ==
    {"", "england", "spain", "England", "Spain Virtual", " england ", "ENGLAND",
     "England Premier", "Unknown", "brazil", "Brazil Virtual", "england virtual",
     "unknown virtual", "brazil virtual"}

StandardNames == {StandardizeLeagueName(raw) : raw \in RawLeagueNames}

\* C23: every row of the matches table, whichever path wrote it, has as league
\* an output of standardize_league_name ('england virtual', never 'england'),
\* so that predict_match, asked for the standardized league, finds it:
\* with a row of each team written for the league it returns a prediction.
C23_StoredLeagueStandardized ==
    /\ \A id \in DOMAIN matches :
           /\ matches[id].league \in StandardNames
           /\ StandardizeLeagueName(matches[id].league) = matches[id].league
    /\ (pc = "done" /\ request.fault \in {"none", "h2h"}
           /\ \A team_name \in {request.home_team, request.away_team} :
                  \E id \in DOMAIN matches :
                     /\ team_name \in {matches[id].home_team, matches[id].away_team}
                     /\ StandardizeLeagueName(matches[id].league) = request.league)
          => prediction # None

\* ------------------------------------------------------------------------
\* VirtualFootballAPI.fetch_all_league_pages (src/api_client.py 96-151): the
\* while loop, one iteration per step. `data` is what fetch_league_matches
\* returned for the page: None, or the JSON of the remote.
\* ------------------------------------------------------------------------
\* Events the remote knows. The key of line 123 is eventId_estimateStartTime.
RemoteEvents ==
    { [eventId |-> "e1", estimateStartTime |-> 1],
      [eventId |-> "e1", estimateStartTime |-> 2],
      [eventId |-> "e2", estimateStartTime |-> 1] }

MatchKey(e) == <<e.eventId, e.estimateStartTime>>

\* A page lists one or two different events in one tournament, or a
\* tournament without events, or no tournament; totalNum may be missing.
TournamentLists ==
    {<< <<e>> >> : e \in RemoteEvents}
    \cup {<< <<p[1], p[2]>> >> : p \in {q \in RemoteEvents \X RemoteEvents : q[1] # q[2]}}
    \cup {<< <<>> >>, <<>>}

Responses ==
    {None} \cup [tournaments : TournamentLists]
           \cup [tournaments : TournamentLists, totalNum : 1..3]

\* for tournament in tournaments: for event in events, as one sequence
RECURSIVE EventsOf(_)
EventsOf(tournaments) ==
    IF tournaments = <<>> THEN <<>>
    ELSE Head(tournaments) \o EventsOf(Tail(tournaments))

\* lines 119-128: the scan of one page. Gives the grown set of keys and the
\* number of keys that were new.
RECURSIVE ScanPage_CountAll(_, _)
ScanPage_CountAll(existing_matches, events) ==
    IF events = <<>> THEN [existing_matches |-> existing_matches, new_matches |-> 0]
    ELSE LET rest == ScanPage_CountAll(existing_matches \cup {MatchKey(Head(events))},
                                       Tail(events))
         IN  [rest EXCEPT !.new_matches = @ + 1]

RECURSIVE ScanPage(_, _)
ScanPage(existing_matches, events) ==
    IF events = <<>> THEN [existing_matches |-> existing_matches, new_matches |-> 0]
    ELSE IF MatchKey(Head(events)) \in existing_matches
         THEN ScanPage(existing_matches, Tail(events))
    ELSE LET rest == ScanPage(existing_matches \cup {MatchKey(Head(events))},
                              Tail(events))
         IN  [rest EXCEPT !.new_matches = @ + 1]

\* lines 139-142: total_processed >= totalNum, float('inf') when missing
ReachedTotal(data, total_processed) ==
    "totalNum" \in DOMAIN data /\ total_processed >= data.totalNum

\* One iteration, lines 103-146, for the answer `data`; `run` is "returned"
\* once the loop has been left and all_matches returned, and `why` names
\* the break taken.
Iterate(f, data) ==
    IF data = None THEN [f EXCEPT !.run = "returned", !.why = "no data"]
    ELSE IF data.tournaments = <<>>
    THEN [f EXCEPT !.run = "returned", !.why = "no tournaments"]
    ELSE LET scan == ScanPage(f.existing_matches, EventsOf(data.tournaments))
             grown == [f EXCEPT !.existing_matches = scan.existing_matches]
         IN  IF scan.new_matches = 0
             THEN [grown EXCEPT !.run = "returned", !.why = "no new matches"]
             ELSE LET kept == [grown EXCEPT
                                  !.all_matches = Append(@, data),
                                  !.total_processed = @ + scan.new_matches]
                  IN  IF ReachedTotal(data, kept.total_processed)
                      THEN [kept EXCEPT !.run = "returned", !.why = "total reached"]
                      ELSE [kept EXCEPT !.page_num = @ + 1]

InitFetch ==
    /\ InitTable /\ batch = NoBatch /\ pages = NoPages /\ IdleScheduler
    /\ IdleNormalizer /\ IdlePredictor /\ pc = "ready"
    /\ fetch = [existing_matches |-> {}, all_matches |-> <<>>, total_processed |-> 0,
                page_num |-> 1, run |-> "running", why |-> ""]

fetch_page ==
    /\ fetch.run = "running"
    /\ fetch.page_num <= MaxFetches
    /\ \E data \in Responses : fetch' = Iterate(fetch, data)
    /\ UNCHANGED <<vars_table, batch, pages, vars_sched, vars_norm, vars_pred, pc>>

NextFetch == fetch_page

SpecFetch == InitFetch /\ [][NextFetch]_vars

\* The loop is sequential code whose one blocking call, session.get, carries
\* timeout=30 (line 77): an iteration that can run does run.
SpecFetchFair == SpecFetch /\ WF_vars(fetch_page)

\* The events of the pages returned, as process_league_pages walks them.
RECURSIVE FetchedEvents(_)
FetchedEvents(all_matches) ==
    IF all_matches = <<>> THEN <<>>
    ELSE EventsOf(Head(all_matches).tournaments) \o FetchedEvents(Tail(all_matches))

\* C24: thanks to the duplicate detection, no event key occurs twice in the
\* pages fetch_all_league_pages returns - also when a later page repeats
\* events already seen next to a new one - so that process_league_pages and
\* add_match count every fetched event exactly once.
C24_ReturnedEventsUnique ==
    fetch.run = "returned" =>
        LET events == FetchedEvents(fetch.all_matches)
        IN  /\ \A i, j \in 1..Len(events) :
                   MatchKey(events[i]) = MatchKey(events[j]) => i = j
            /\ Len(events) = fetch.total_processed

\* C29: fetch_all_league_pages terminates when the remote knows finitely many
\* event keys: an iteration that does not break adds at least one unseen key,
\* so the page number never exceeds the number of keys seen plus one, and the
\* loop is left - on a failed fetch, a page without tournaments, a page
\* without a new key, or when total_processed reaches totalNum.
C29_FetchTerminates ==
    /\ [][fetch'.page_num > fetch.page_num =>
             /\ fetch.existing_matches \subseteq fetch'.existing_matches
             /\ fetch.existing_matches # fetch'.existing_matches]_vars
    /\ [](fetch.page_num <= Cardinality(fetch.existing_matches) + 1)
    /\ [](fetch.run = "returned" =>
             fetch.why \in {"no data", "no tournaments", "no new matches",
                            "total reached"})
    /\ <>(fetch.run = "returned")

\* every key was seen, on three pages, before a page without a new key
C29_Witness ==
    /\ fetch.run = "returned"
    /\ fetch.why = "no new matches"
    /\ Len(fetch.all_matches) = 3
    /\ fetch.page_num = 4
    /\ Cardinality(fetch.existing_matches) = 3

\* ------------------------------------------------------------------------
\* The scheduled_matches table and the scheduler's jobs (src/run.py,
\* src/simplified_enhanced_fetcher.py). Times are in minutes. The jobs run
\* one after another on the scheduler's single thread (schedule.run_pending),
\* so each is one step; the clock may advance by any amount between two jobs.
\* ------------------------------------------------------------------------
\* check_for_started_matches looks back 2 minutes (run.py 115)
StartedWindow == 2

\* check_for_finished_matches: 31 minutes after the start, give or take 1
MatchEndAfter == 31

Tolerance == 1

\* _clean_old_scheduled_matches: 24 hours
CleanAfter == 1440

\* The fixtures _extract_matches_from_page can find on the schedule page
\* (fetcher 395-407): league already standardized, status 'scheduled'.
SiteMatches ==
    { [event_id |-> "s1", home_team |-> "A", away_team |-> "B", league |-> "england virtual",
       start_time |-> 1, status |-> "scheduled"],
      [event_id |-> "s2", home_team |-> "B", away_team |-> "C", league |-> "england virtual",
       start_time |-> 3, status |-> "scheduled"] }

\* What one scrape extracts, in page order.
Scrapes ==
    {<<>>} \cup {<<m>> : m \in SiteMatches}
           \cup {<<p[1], p[2]>> : p \in {q \in SiteMatches \X SiteMatches : q[1] # q[2]}}

\* DELETE FROM scheduled_matches WHERE start_time < ?
DeleteBefore(rows, cutoff_time) ==
    [id \in {i \in DOMAIN rows : ~(rows[i].start_time < cutoff_time)} |-> rows[id]]

\* fetch_scheduled_matches 173, 206: the scraped matches whose event_id the
\* table does not hold yet
NewMatches(rows, scraped) ==
    SelectSeq(scraped, LAMBDA m : \A id \in DOMAIN rows : rows[id].event_id # m.event_id)

\* save_to_database 451-474: INSERT OR IGNORE on the UNIQUE event_id, the id
\* from AUTOINCREMENT, the league standardized. t is [rows, seq].
RECURSIVE InsertOrIgnore(_, _)
InsertOrIgnore(t, processed) ==
    IF processed = <<>> THEN t
    ELSE LET match == Head(processed)
             row == [event_id |-> match.event_id, home_team |-> match.home_team,
                     away_team |-> match.away_team,
                     league |-> StandardizeLeagueName(match.league),
                     start_time |-> match.start_time, status |-> match.status]
         IN  IF \E id \in DOMAIN t.rows : t.rows[id].event_id = match.event_id
             THEN InsertOrIgnore(t, Tail(processed))
             ELSE InsertOrIgnore(
                      [rows |-> [id \in DOMAIN t.rows \cup {t.seq + 1} |->
                                    IF id = t.seq + 1 THEN row ELSE t.rows[id]],
                       seq |-> t.seq + 1],
                      Tail(processed))

\* save_to_database 435-483 at time `time` for self.processed_scheduled
SaveToDatabase(t, processed, time) ==
    IF processed = <<>> THEN t
    ELSE InsertOrIgnore([t EXCEPT !.rows = DeleteBefore(@, time - CleanAfter)], processed)

\* WHERE start_time BETWEEN ? AND ? AND status = 'scheduled'
Selected_AnyStatus(rows, low, high) ==
    {id \in DOMAIN rows : rows[id].start_time >= low /\ rows[id].start_time <= high}

Selected(rows, low, high) ==
    {id \in DOMAIN rows :
        /\ rows[id].start_time >= low /\ rows[id].start_time <= high
        /\ rows[id].status = "scheduled"}

\* UPDATE scheduled_matches SET status = ? WHERE event_id = ?, for the
\* event_id of every selected row
Mark(rows, selected, status) ==
    [id \in DOMAIN rows |->
        IF \E k \in selected : rows[k].event_id = rows[id].event_id
        THEN [rows[id] EXCEPT !.status = status] ELSE rows[id]]

InitScheduler ==
    /\ InitTable /\ batch = NoBatch /\ pages = NoPages /\ IdleFetch
    /\ IdleNormalizer /\ IdlePredictor
    /\ scheduled_matches = EmptyDict /\ sqlite_sequence = 0 /\ now = 0
    /\ listing = None
    /\ pc = "ready"

\* time passes between two jobs
tick ==
    /\ \E later \in (now + 1)..MaxClock : now' = later
    /\ UNCHANGED <<vars_table, batch, pages, fetch, scheduled_matches, sqlite_sequence,
                   listing, vars_norm, vars_pred, pc>>

\* update_scheduled_matches_only -> run_scheduled_update (fetcher 542-570):
\* cleanup_old_scheduled_matches, fetch_scheduled_matches, save_to_database
run_scheduled_update ==
    \E scraped \in Scrapes :
        LET cleaned == DeleteBefore(scheduled_matches, now)
            t == SaveToDatabase([rows |-> cleaned, seq |-> sqlite_sequence],
                                NewMatches(cleaned, scraped), now)
        IN  /\ t.seq <= MaxRows
            /\ scheduled_matches' = t.rows
            /\ sqlite_sequence' = t.seq
            /\ pc' = "run_scheduled_update"
            /\ UNCHANGED <<vars_table, batch, pages, fetch, now, listing, vars_norm,
                           vars_pred>>

\* update_data -> run_full_update (fetcher 505-538; `run.py --update`): the
\* scheduled part, fetch_scheduled_matches then save_to_database, without
\* the cleanup
run_full_update ==
    \E scraped \in Scrapes :
        LET t == SaveToDatabase([rows |-> scheduled_matches, seq |-> sqlite_sequence],
                                NewMatches(scheduled_matches, scraped), now)
        IN  /\ t.seq <= MaxRows
            /\ scheduled_matches' = t.rows
            /\ sqlite_sequence' = t.seq
            /\ pc' = "run_full_update"
            /\ UNCHANGED <<vars_table, batch, pages, fetch, now, listing, vars_norm,
                           vars_pred>>

\* run.py 107-142
check_for_started_matches ==
    LET started_matches == Selected(scheduled_matches, now - StartedWindow, now)
    IN  /\ scheduled_matches' = Mark(scheduled_matches, started_matches, "started")
        /\ pc' = "check_for_started_matches"
        /\ UNCHANGED <<vars_table, batch, pages, fetch, sqlite_sequence, now, listing,
                       vars_norm, vars_pred>>

\* run.py 67-105
check_for_finished_matches ==
    LET match_end_time == now - MatchEndAfter
        finished_matches == Selected(scheduled_matches, match_end_time - Tolerance,
                                     match_end_time + Tolerance)
    IN  /\ scheduled_matches' = Mark(scheduled_matches, finished_matches, "finished")
        /\ pc' = "check_for_finished_matches"
        /\ UNCHANGED <<vars_table, batch, pages, fetch, sqlite_sequence, now, listing,
                       vars_norm, vars_pred>>

NextScheduler ==
    \/ tick
    \/ run_scheduled_update
    \/ run_full_update
    \/ check_for_started_matches
    \/ check_for_finished_matches

SpecScheduler == InitScheduler /\ [][NextScheduler]_vars

\* C28: the only status changes a scheduled_matches row ever sees are
\* scheduled -> started and scheduled -> finished: a row marked 'started' is
\* never marked 'finished' later, no row returns to 'scheduled', and
\* re-scraping leaves the status of an event_id the table holds as it is.
C28_StatusTransitions ==
    /\ [][\A id \in DOMAIN scheduled_matches \cap DOMAIN scheduled_matches' :
             LET before == scheduled_matches[id].status
                 after  == scheduled_matches'[id].status
             IN  \/ after = before
                 \/ before = "scheduled" /\ after \in {"started", "finished"}]_vars
    /\ [](\A id \in DOMAIN scheduled_matches :
             scheduled_matches[id].status \in {"scheduled", "started", "finished"})

\* check_for_finished_matches ran with a started and a scheduled row in its
\* window: the first is still 'started', the second now 'finished'
C28_Witness ==
    /\ pc = "check_for_finished_matches"
    /\ \E i, j \in DOMAIN scheduled_matches :
           /\ scheduled_matches[i].status = "started"
           /\ scheduled_matches[i].start_time >= now - MatchEndAfter - Tolerance
           /\ scheduled_matches[i].start_time <= now - MatchEndAfter + Tolerance
           /\ scheduled_matches[j].status = "finished"

\* ------------------------------------------------------------------------
\* The web application (src/app.py): /matches/<league> and
\* /predict/<league>/<home_team>/<away_team> on one store.
\* ------------------------------------------------------------------------
\* SELECT ... LIMIT 20 of the fallback query (app.py 240)
HistoricalLimit == 20

\* app.py 208-215: the stored matches of the league in which the home team
\* or the away team played, on either side
HistoricalCount(table, league, home_team, away_team) ==
    Cardinality({e \in DOMAIN table :
        /\ table[e].league = league
        /\ \/ table[e].home_team = home_team \/ table[e].away_team = home_team
           \/ table[e].home_team = away_team \/ table[e].away_team = away_team})

\* app.py 196-231: the scheduled fixtures of the league (LIMIT 50 is above
\* what the table holds here) with their can_predict flag
ScheduledEntries(rows, table, league) ==
    {[home_team |-> rows[id].home_team, away_team |-> rows[id].away_team,
      event_id |-> rows[id].event_id, status |-> rows[id].status,
      type |-> "scheduled",
      can_predict |-> HistoricalCount(table, league, rows[id].home_team,
                                      rows[id].away_team) >= 2] :
        id \in {i \in DOMAIN rows : rows[i].league = league /\ rows[i].status = "scheduled"}}

\* app.py 234-253: the stored matches of the league, newest first
HistoricalEntries(table, sel) ==
    {[home_team |-> table[e].home_team, away_team |-> table[e].away_team,
      event_id |-> e, status |-> "completed", type |-> "historical",
      can_predict |-> TRUE] : e \in sel}

\* get_matches(league), app.py 185-260: the answers it can give
GetMatches(rows, table, league) ==
    LET standardized_league == StandardizeLeagueName(league)
        scheduled == ScheduledEntries(rows, table, standardized_league)
        stored == {e \in DOMAIN table : table[e].league = standardized_league}
    IN  {[matches |-> IF scheduled # {} THEN scheduled ELSE HistoricalEntries(table, sel),
          league_standardized |-> standardized_league] :
            sel \in Recent(table, stored, HistoricalLimit)}

InitApp == InitScheduler /\ now = 0

\* EnhancedDataFetcher.save_to_database for one scrape
save_to_database ==
    \E scraped \in Scrapes :
        LET t == SaveToDatabase([rows |-> scheduled_matches, seq |-> sqlite_sequence],
                                NewMatches(scheduled_matches, scraped), now)
        IN  /\ pc = "ready"
            /\ t.seq <= MaxRows
            /\ scheduled_matches' = t.rows
            /\ sqlite_sequence' = t.seq
            /\ UNCHANGED <<vars_table, batch, pages, fetch, now, listing, vars_norm,
                           vars_pred, pc>>

\* GET /matches/<league>
get_matches ==
    /\ pc = "ready"
    /\ \E league \in LeagueKeys :
          listing' \in GetMatches(scheduled_matches, matches, league)
    /\ pc' = "listed"
    /\ UNCHANGED <<vars_table, batch, pages, fetch, scheduled_matches, sqlite_sequence,
                   now, vars_norm, vars_pred>>

\* GET /predict/<league>/<home_team>/<away_team> (app.py 265-304) for a
\* fixture of the listing that is flagged can_predict
predict_listed ==
    /\ pc = "listed"
    /\ \E entry \in listing.matches :
          LET league == StandardizeLeagueName(listing.league_standardized)
          IN  /\ entry.can_predict
              /\ request' = [home_team |-> entry.home_team, away_team |-> entry.away_team,
                             league |-> league, fault |-> "none"]
              /\ \E hs \in {TeamStats(matches, sel, entry.home_team) :
                               sel \in Recent(matches, TeamRows(matches, entry.home_team, league),
                                              RecentLimit)},
                     as \in {TeamStats(matches, sel, entry.away_team) :
                               sel \in Recent(matches, TeamRows(matches, entry.away_team, league),
                                              RecentLimit)},
                     x \in {H2HStats(matches, sel) :
                               sel \in Recent(matches, H2HRows(matches, entry.home_team,
                                                               entry.away_team, league),
                                              RecentLimit)} :
                    prediction' \in PredictMatch(entry.home_team, entry.away_team, league,
                                                 hs, as, x)
    /\ pc' = "done"
    /\ UNCHANGED <<vars_table, batch, pages, fetch, vars_sched, vars_norm, matches>>

NextApp ==
    \/ fetch_completed_matches_via_api
    \/ save_to_database
    \/ get_matches
    \/ predict_listed

SpecApp == InitApp /\ [][NextApp]_vars

\* C30: for every fixture /matches/<league> lists with can_predict = true - a
\* scheduled fixture with at least 2 stored matches involving either team, or
\* a historical fixture of the fallback - predict_match for the same teams
\* and league on the same store returns a prediction, not None.
C30_CanPredictMeansPrediction ==
    (pc = "done" /\ \E entry \in listing.matches :
                       /\ entry.can_predict
                       /\ entry.home_team = request.home_team
                       /\ entry.away_team = request.away_team)
        => prediction # None

====
